---- MODULE Spec2Model ----
(***************************************************************************)
(* Model of the crypto research agent of mcp-agents/gemini-mcp-deepsearch: *)
(* the DetailedLogger, the start-up connection test and the interactive    *)
(* loop of run() with its per-turn retry loop.                             *)
(*                                                                         *)
(* One action stands for the code that runs between two suspension points  *)
(* of run().  A logger write (_write_log) either appends its record or     *)
(* raises; the exception then takes the path the code gives it.            *)
(***************************************************************************)
EXTENDS Integers, Sequences, FiniteSets, TLC

VARIABLES
    pc,               \* position of run(): start, connect, prompt, attempt, sending, stream, sleep, done
    user_input,       \* run(): the line read at the prompt
    call_id,          \* run(): the call id of the turn in flight
    retry_count,      \* run(): retry counter of the turn in flight
    tool_calls_made,  \* run(): [bound, names]; a local of run(), unbound until first assigned
    full_response,    \* run(): accumulated text of the attempt, a sequence of characters
    response_started, \* run(): the first non-blank text of the attempt was seen
    running,          \* ProcessingAnimation.running of the turn's indicator
    call_counter,     \* DetailedLogger.call_counter
    log,              \* the log file: the sequence of records written so far
    gateway,          \* the MCP client: unopened, open, closed
    connect_attempt,  \* test_mcp_connection: the loop variable attempt
    exit_reason,      \* why run() was left ("none" while it runs)
    events,           \* environment: inputs and faults it has produced so far
    turn_state,       \* history: IDLE, PENDING, STREAMING, SUCCESS, FAILED of the turn in flight
    dispatched,       \* history: send_message_stream calls made for the turn in flight
    iteration,        \* history: iterations of the retry loop begun for the turn in flight
    outcomes,         \* history: how the streams of the turn's attempts ended
    stream_calls,     \* history: tool invocations consumed since tool_calls_made was last reset
    issued,           \* history: the call ids log_user_query has returned
    announced,        \* history: the "Calling tool" lines printed, as [call_id, iteration, tool]
    write_failed,     \* history: some logger write has raised
    raised_by,        \* history: what raised the exception that ended run(), if one did
    asked,            \* history: the line that opened the turn in flight
    sent,             \* history: the texts passed to send_message_stream in the turn in flight
    fragments,        \* history: the chunk texts of the turn in flight, as [iteration, text]
    list_tools,       \* history: how the list_tools calls of test_mcp_connection ended
    shown,            \* history: the kinds of lines printed to the user during turns
    opens,            \* history: times the MCP client was entered (`async with`)
    closes,           \* history: times the MCP client was left (its __aexit__ ran)
    total_reported,   \* history: total_calls of the summary print_goodbye reported (-1: none)
    observed,         \* history: tool invocations consumed in the current iteration of the retry loop
    reported,         \* history: [printed, names] of the "Tools called before ..." line of the iteration
    san_state,        \* _sanitize_for_log: idle, called, returned
    san_data,         \* _sanitize_for_log: the argument data
    san_max_length,   \* _sanitize_for_log: the argument max_length
    san_result,       \* _sanitize_for_log: the value returned
    anim_task,        \* ProcessingAnimation.task: none, created, sleeping, finished
    anim_running,     \* ProcessingAnimation.running of the indicator observed alone
    timeout_counter,  \* _animate: the local timeout_counter
    cancel_requested, \* the task has a cancellation pending (task.cancel() was called)
    ticks,            \* history: spinner frames the task has written
    owner_stopped,    \* history: the owner of the indicator has called stop()
    agent_pc,         \* gemini-mcp-agent main(): prompt, streaming, done
    agent_inputs,     \* gemini-mcp-agent: inputs["messages"]
    agent_state,      \* gemini-mcp-agent: state["messages"] of the last streamed state
    agent_sent,       \* history: the messages passed to graph.astream, turn by turn
    ind_running,      \* ProcessingAnimation.running of an indicator started and stopped at will
    ind_task,         \* ProcessingAnimation.task: index of the task in ind_tasks, 0 for None
    ind_tasks,        \* the _animate tasks created so far, as [state, counter, cancel]
    ind_ready,        \* the event loop's queue of tasks ready to run, first in first out
    ind_calls,        \* history: start() and stop() calls made so far
    browser_pc,       \* gemini-browser-use main(): prompt, agent, closing, done
    stdin_state,      \* gemini-browser-use: terminal input is open or at eof
    eof_reads,        \* history: times input() has raised EOFError
    browser_results,  \* history: how the agent_loop calls ended
    browser_closed    \* gemini-browser-use: no, closed, close_failed

vars == <<pc, user_input, call_id, retry_count, tool_calls_made, full_response,
          response_started, running, call_counter, log, gateway, connect_attempt,
          exit_reason, events, turn_state, dispatched, iteration, outcomes,
          stream_calls, issued, announced, write_failed, raised_by,
          asked, sent, fragments, list_tools, shown,
          opens, closes, total_reported, observed, reported,
          san_state, san_data, san_max_length, san_result,
          anim_task, anim_running, timeout_counter, cancel_requested, ticks,
          owner_stopped,
          agent_pc, agent_inputs, agent_state, agent_sent,
          ind_running, ind_task, ind_tasks, ind_ready, ind_calls,
          browser_pc, stdin_state, eof_reads, browser_results, browser_closed>>

agent_vars == <<agent_pc, agent_inputs, agent_state, agent_sent>>

ind_vars == <<ind_running, ind_task, ind_tasks, ind_ready, ind_calls>>

browser_vars == <<browser_pc, stdin_state, eof_reads, browser_results, browser_closed>>

anim_vars == <<anim_task, anim_running, timeout_counter, cancel_requested, ticks,
               owner_stopped>>

run_vars == <<pc, user_input, call_id, retry_count, tool_calls_made, full_response,
              response_started, running, call_counter, log, gateway, connect_attempt,
              exit_reason, events, turn_state, dispatched, iteration, outcomes,
              stream_calls, issued, announced, write_failed, raised_by,
              asked, sent, fragments, list_tools, shown,
              opens, closes, total_reported, observed, reported>>

san_vars == <<san_state, san_data, san_max_length, san_result>>

(***************************************************************************)
(* Bounds of the model and constants of the program.                       *)
(***************************************************************************)
MaxEvents == 4
MaxLen == 3
MaxCap == 5
MaxAgentTurns == 3
MaxBrowserTurns == 3
MaxReads == 3
MaxCalls == 4

max_retries == 3
connect_max_retries == 3
max_timeout == 300

session_id == "sess"
SYSTEM == <<"SYSTEM">>
NoCallId == <<>>

ToolNames == {"t1", "t2"}
Blank == " "
Chars == {"a", Blank}

\* What one chunk of the stream carries: the names of the function_call parts
\* of its candidates, and chunk.text (has_text is FALSE when chunk.text is None).
Chunks ==
    {[calls |-> <<t>>, has_text |-> FALSE, text |-> <<>>] : t \in ToolNames}
        \cup {[calls |-> <<>>, has_text |-> TRUE, text |-> <<c>>] : c \in Chars}
        \cup {[calls |-> <<"t1">>, has_text |-> TRUE, text |-> <<"a">>]}

Queries == {"btc price", "ETH gas"}
ExitWords == {"exit", "quit", "bye", "goodbye"}
TypedLines == Queries \cup {"exit", "QUIT"}

\* str.lower() on the lines the model types
Lower(s) ==
    IF s = "QUIT" THEN "quit"
    ELSE IF s = "ETH gas" THEN "eth gas"
    ELSE IF s = "EXIT" THEN "exit"
    ELSE IF s = "Q" THEN "q"
    ELSE s

(***************************************************************************)
(* DetailedLogger                                                          *)
(***************************************************************************)
DigitChars == <<"0", "1", "2", "3", "4", "5", "6", "7", "8", "9">>

RECURSIVE Digits(_)
Digits(n) == IF n < 10 THEN <<DigitChars[n + 1]>>
             ELSE Digits(n \div 10) \o <<DigitChars[(n % 10) + 1]>>

RECURSIVE PadLeft(_, _)
PadLeft(s, width) == IF Len(s) >= width THEN s ELSE PadLeft(<<"0">> \o s, width)

\* f"{self.call_counter:04d}"
Format04d(n) == PadLeft(Digits(n), 4)

\* f"{self.session_id}-{self.call_counter:04d}"
FormatCallId(n) == <<session_id, "-">> \o Format04d(n)

NextCallCounter_Stuck(n) == n

NextCallCounter_ByTwo(n) == n + 2

\* self.call_counter += 1
NextCallCounter(n) == n + 1

\* f"{call_id}-tool-{tool_name}"
ToolCallId(cid, tool) == cid \o <<"-tool-", tool>>

Record(kind, cid, tcid, ctx) ==
    [kind |-> kind, call_id |-> cid, tool_call_id |-> tcid, ctx |-> ctx]

SessionHeader == Record("session_header", NoCallId, <<>>, "")
UserQueryRec(cid) == Record("user_query", cid, <<>>, "")
LlmRequestRec_NoCallId(cid) == Record("llm_request", NoCallId, <<>>, "")
LlmRequestRec(cid) == Record("llm_request", cid, <<>>, "")
LlmResponseRec(cid) == Record("llm_response", cid, <<>>, "")
ToolCallRec(cid, tool) == Record("tool_call", cid, ToolCallId(cid, tool), tool)
ToolResponseRec(tcid) == Record("tool_response", NoCallId, tcid, "")
ErrorRec(cid, ctx) == Record("error", cid, <<>>, ctx)
SessionEndRec == Record("session_end", NoCallId, <<>>, "")

WriteLog_Truncates(s, rec) == [s EXCEPT !.log = <<rec>>]

\* _write_log when the write goes through: the entry is appended
WriteLog(s, rec) == [s EXCEPT !.log = Append(@, rec)]

\* _write_log when open/write/flush raises: nothing is appended
WriteRaises(s) == [s EXCEPT !.write_failed = TRUE, !.events = @ + 1]

\* the environment produces one more input or fault
Event(s) == [s EXCEPT !.events = @ + 1]

\* whether the environment may still produce one
MayHappen(s) == s.events < MaxEvents

\* the outcomes a logger write can have in state s
WriteOutcomes(s) == IF MayHappen(s) THEN BOOLEAN ELSE {TRUE}

(***************************************************************************)
(* The state of the program as one record, and its commit.                 *)
(***************************************************************************)
Cur ==
    [pc |-> pc, user_input |-> user_input, call_id |-> call_id,
     retry_count |-> retry_count, tool_calls_made |-> tool_calls_made,
     full_response |-> full_response, response_started |-> response_started,
     running |-> running, call_counter |-> call_counter, log |-> log,
     gateway |-> gateway, connect_attempt |-> connect_attempt,
     exit_reason |-> exit_reason, events |-> events,
     turn_state |-> turn_state, dispatched |-> dispatched, iteration |-> iteration,
     outcomes |-> outcomes, stream_calls |-> stream_calls, issued |-> issued,
     announced |-> announced, write_failed |-> write_failed, raised_by |-> raised_by,
     asked |-> asked, sent |-> sent, fragments |-> fragments,
     list_tools |-> list_tools, shown |-> shown,
     opens |-> opens, closes |-> closes, total_reported |-> total_reported,
     observed |-> observed, reported |-> reported]

Commit(s) ==
    /\ pc' = s.pc
    /\ user_input' = s.user_input
    /\ call_id' = s.call_id
    /\ retry_count' = s.retry_count
    /\ tool_calls_made' = s.tool_calls_made
    /\ full_response' = s.full_response
    /\ response_started' = s.response_started
    /\ running' = s.running
    /\ call_counter' = s.call_counter
    /\ log' = s.log
    /\ gateway' = s.gateway
    /\ connect_attempt' = s.connect_attempt
    /\ exit_reason' = s.exit_reason
    /\ events' = s.events
    /\ turn_state' = s.turn_state
    /\ dispatched' = s.dispatched
    /\ iteration' = s.iteration
    /\ outcomes' = s.outcomes
    /\ stream_calls' = s.stream_calls
    /\ issued' = s.issued
    /\ announced' = s.announced
    /\ write_failed' = s.write_failed
    /\ raised_by' = s.raised_by
    /\ asked' = s.asked
    /\ sent' = s.sent
    /\ fragments' = s.fragments
    /\ list_tools' = s.list_tools
    /\ shown' = s.shown
    /\ opens' = s.opens
    /\ closes' = s.closes
    /\ total_reported' = s.total_reported
    /\ observed' = s.observed
    /\ reported' = s.reported
    /\ UNCHANGED san_vars
    /\ UNCHANGED anim_vars
    /\ UNCHANGED <<agent_vars, ind_vars, browser_vars>>

\* gemini-mcp-agent and gemini-browser-use at their first prompt, and a
\* ProcessingAnimation just constructed
InitScripts ==
    /\ agent_pc = "prompt"
    /\ agent_inputs = <<>>
    /\ agent_state = <<>>
    /\ agent_sent = <<>>
    /\ ind_running = FALSE
    /\ ind_task = 0
    /\ ind_tasks = <<>>
    /\ ind_ready = <<>>
    /\ ind_calls = 0
    /\ browser_pc = "prompt"
    /\ stdin_state = "open"
    /\ eof_reads = 0
    /\ browser_results = <<>>
    /\ browser_closed = "no"

\* run() has constructed the logger: the log file holds the session header
InitRun ==
    /\ pc = "start"
    /\ user_input = ""
    /\ call_id = NoCallId
    /\ retry_count = 0
    /\ tool_calls_made = [bound |-> FALSE, names |-> <<>>]
    /\ full_response = <<>>
    /\ response_started = FALSE
    /\ running = FALSE
    /\ call_counter = 0
    /\ log = <<SessionHeader>>
    /\ gateway = "unopened"
    /\ connect_attempt = 0
    /\ exit_reason = "none"
    /\ events = 0
    /\ turn_state = "IDLE"
    /\ dispatched = 0
    /\ iteration = 0
    /\ outcomes = <<>>
    /\ stream_calls = <<>>
    /\ issued = <<>>
    /\ announced = <<>>
    /\ write_failed = FALSE
    /\ raised_by = "none"
    /\ asked = ""
    /\ sent = <<>>
    /\ fragments = <<>>
    /\ list_tools = <<>>
    /\ shown = {}
    /\ opens = 0
    /\ closes = 0
    /\ total_reported = -1
    /\ observed = <<>>
    /\ reported = [printed |-> FALSE, names |-> <<>>]

Init ==
    /\ InitRun
    /\ san_state = "idle"
    /\ san_data = [type |-> "str", chars |-> <<>>, items |-> <<>>, n |-> 0,
                   circular |-> FALSE]
    /\ san_max_length = 0
    /\ san_result = <<>>
    /\ anim_task = "none"
    /\ anim_running = FALSE
    /\ timeout_counter = 0
    /\ cancel_requested = FALSE
    /\ ticks = 0
    /\ owner_stopped = FALSE
    /\ InitScripts

(***************************************************************************)
(* Helpers of run()                                                        *)
(***************************************************************************)
RECURSIVE LStrip(_)
LStrip(s) == IF s # <<>> /\ Head(s) = Blank THEN LStrip(Tail(s)) ELSE s

RECURSIVE RStrip(_)
RStrip(s) == IF s # <<>> /\ s[Len(s)] = Blank THEN RStrip(SubSeq(s, 1, Len(s) - 1)) ELSE s

\* str.strip()
Strip(s) == RStrip(LStrip(s))

\* the truth value of `x and x.strip()`
NonBlank(s) == s # <<>> /\ Strip(s) # <<>>

NotYetCalled_Always(names, tool) == TRUE

NotYetCalled_LastOnly(names, tool) == names = <<>> \/ names[Len(names)] # tool

\* tool_name not in tool_calls_made
NotYetCalled(names, tool) == \A i \in 1..Len(names) : names[i] # tool

\* retry_count < max_retries, the loop condition and the two retry tests
RetryLeft(rc) == rc < max_retries

AddText_Prepend(acc, text) == text \o acc

\* full_response += chunk.text
AddText(acc, text) == acc \o text

(***************************************************************************)
(* The exception paths of run()                                            *)
(***************************************************************************)
LeaveClient_Skips(s) == s

\* the `async with mcp_client` block is left: the client's __aexit__ runs
LeaveClient(s) == [s EXCEPT !.gateway = "closed", !.closes = @ + 1]

\* An exception other than KeyboardInterrupt leaves the `async with` block (the
\* client is closed), is caught by the outer handler, which logs it; when that
\* write raises too, the exception leaves run() and __main__ swallows it.
OuterHandler(s, origin) ==
    LET s1 == [s EXCEPT !.pc = "done", !.raised_by = origin]
    IN \E ok \in WriteOutcomes(s1) :
          IF ok
          THEN Commit([WriteLog(s1, ErrorRec(SYSTEM, "Heurist MCP connection"))
                          EXCEPT !.exit_reason = "escaped"])
          ELSE Commit([WriteRaises(s1) EXCEPT !.exit_reason = "crashed"])

\* print(...) during a turn: the kinds of text the lines carry
Shows(s, kinds) == [s EXCEPT !.shown = @ \cup kinds]

\* an exception raised inside the `async with` block leaves it (LeaveClient)
\* and reaches the outer handler
OuterExcept(s, origin) == OuterHandler(LeaveClient(s), origin)

\* `if tool_calls_made: print("Tools called before ...")` of the handler
ReportTools(s) ==
    IF s.tool_calls_made.names # <<>>
    THEN [s EXCEPT !.reported = [printed |-> TRUE, names |-> s.tool_calls_made.names]]
    ELSE s

\* `except Exception as e:` of the retry loop, entered in state s
ExceptHandler(s, origin) ==
    LET s1 == [s EXCEPT !.running = FALSE, !.retry_count = @ + 1]
    IN \E ok1 \in WriteOutcomes(s1) :
          IF ~ok1 THEN OuterExcept(WriteRaises(s1), "logger")
          ELSE LET s2 == WriteLog(s1, ErrorRec(s1.call_id, "retry")) IN
               IF RetryLeft(s2.retry_count)
               THEN LET s2p == Shows(s2, {"retrying", "exception_text"}) IN
                    IF ~s2p.tool_calls_made.bound
                    THEN OuterExcept(s2p, "unbound_local")
                    ELSE Commit([ReportTools(s2p) EXCEPT
                                    !.pc = "sleep", !.turn_state = "PENDING"])
               ELSE LET s2p == Shows(s2, {"try_again", "exception_text"}) IN
                    \E ok2 \in WriteOutcomes(s2p) :
                       IF ~ok2 THEN OuterExcept(WriteRaises(s2p), "logger")
                       ELSE LET s3 == WriteLog(s2p, ErrorRec(s2p.call_id, "final")) IN
                            IF ~s3.tool_calls_made.bound
                            THEN OuterExcept(s3, "unbound_local")
                            ELSE Commit([ReportTools(s3) EXCEPT
                                            !.pc = "prompt", !.turn_state = "FAILED"])

(***************************************************************************)
(* Start-up: run() up to the interactive loop, and test_mcp_connection     *)
(***************************************************************************)
\* HEURIST_MCP_URL is not set: the error is logged outside the try block
StartNoUrl ==
    /\ pc = "start"
    /\ \E ok \in WriteOutcomes(Cur) :
          IF ok
          THEN Commit([WriteLog(Cur, ErrorRec(SYSTEM, "")) EXCEPT
                          !.pc = "done", !.exit_reason = "no_url"])
          ELSE Commit([WriteRaises(Cur) EXCEPT
                          !.pc = "done", !.exit_reason = "crashed",
                          !.raised_by = "logger"])

\* `async with mcp_client` is entered
StartOpen ==
    /\ pc = "start"
    /\ Commit([Cur EXCEPT !.gateway = "open", !.opens = @ + 1, !.pc = "connect"])

\* entering `async with mcp_client` raises
StartOpenRaises ==
    /\ pc = "start"
    /\ OuterHandler(Cur, "gateway")

\* the handler of one iteration of test_mcp_connection, then run()'s reaction
\* when the last attempt has failed
ConnectExcept(s) ==
    \E ok \in WriteOutcomes(s) :
       IF ~ok THEN OuterExcept(WriteRaises(s), "logger")
       ELSE LET s1 == WriteLog(s, ErrorRec(SYSTEM, "MCP connection attempt")) IN
            IF s1.connect_attempt < connect_max_retries - 1
            THEN Commit([s1 EXCEPT !.connect_attempt = @ + 1])
            ELSE \E ok2 \in WriteOutcomes(s1) :
                    IF ~ok2 THEN OuterExcept(WriteRaises(s1), "logger")
                    ELSE Commit([LeaveClient(WriteLog(s1, ErrorRec(SYSTEM, ""))) EXCEPT
                                    !.pc = "done",
                                    !.exit_reason = "connect_failed"])

\* list_tools answers: both records are written and the loop is entered
ConnectOk ==
    /\ pc = "connect"
    /\ LET s0 == [Cur EXCEPT !.list_tools = Append(@, "ok")] IN
       \E ok1 \in WriteOutcomes(s0) :
          IF ~ok1 THEN ConnectExcept(WriteRaises(s0))
          ELSE LET s1 == WriteLog(s0, ToolCallRec(SYSTEM, "list_tools")) IN
               \E ok2 \in WriteOutcomes(s1) :
                  IF ~ok2 THEN ConnectExcept(WriteRaises(s1))
                  ELSE Commit([WriteLog(s1, ToolResponseRec(ToolCallId(SYSTEM, "list_tools")))
                                  EXCEPT !.pc = "prompt"])

\* list_tools raises
ConnectRaises ==
    /\ pc = "connect"
    /\ MayHappen(Cur)
    /\ ConnectExcept([Event(Cur) EXCEPT !.list_tools = Append(@, "raise")])

(***************************************************************************)
(* The interactive loop of run()                                           *)
(***************************************************************************)
\* get_log_summary()["total_calls"]
SummaryTotal(s) == s.call_counter

\* print_goodbye(logger) and the break that leaves the loop and the client; when
\* the client's __aexit__ raises, the outer handler logs the error
Goodbye(s, reason) ==
    \E ok \in WriteOutcomes(s) :
       IF ~ok THEN OuterExcept(WriteRaises(s), "logger")
       ELSE LET s1 == [LeaveClient(WriteLog(s, SessionEndRec)) EXCEPT
                          !.total_reported = SummaryTotal(s),
                          !.pc = "done", !.exit_reason = reason]
            IN \E close_raises \in (IF MayHappen(s1) THEN BOOLEAN ELSE {FALSE}) :
                  IF ~close_raises THEN Commit(s1)
                  ELSE LET s2 == [Event(s1) EXCEPT !.raised_by = "close"] IN
                       \E ok2 \in WriteOutcomes(s2) :
                          IF ok2
                          THEN Commit(WriteLog(s2, ErrorRec(SYSTEM, "Heurist MCP connection")))
                          ELSE Commit(WriteRaises(s2))

\* input() raises KeyboardInterrupt or EOFError
ReadInterrupted ==
    /\ pc = "prompt"
    /\ \E reason \in {"eof", "prompt_interrupt"} : Goodbye(Cur, reason)

\* the line is one of the exit words, in any letter case
ReadExit ==
    /\ pc = "prompt"
    /\ \E line \in TypedLines :
          /\ Lower(line) \in ExitWords
          /\ Goodbye([Cur EXCEPT !.user_input = line], "exit")

\* any other line: log_user_query, a new indicator, retry_count = 0
ReadQuery ==
    /\ pc = "prompt"
    /\ MayHappen(Cur)
    /\ \E line \in TypedLines :
          /\ Lower(line) \notin ExitWords
          /\ LET n == NextCallCounter(call_counter)
                 cid == FormatCallId(n)
                 s0 == [Event(Cur) EXCEPT !.user_input = line, !.call_counter = n]
             IN \E ok \in WriteOutcomes(s0) :
                   IF ~ok THEN OuterExcept(WriteRaises(s0), "logger")
                   ELSE Commit([WriteLog(s0, UserQueryRec(cid)) EXCEPT
                                   !.call_id = cid,
                                   !.issued = Append(@, cid),
                                   !.asked = line,
                                   !.sent = <<>>,
                                   !.fragments = <<>>,
                                   !.running = FALSE,
                                   !.retry_count = 0,
                                   !.pc = "attempt",
                                   !.turn_state = "PENDING",
                                   !.dispatched = 0,
                                   !.iteration = 0,
                                   !.outcomes = <<>>])

Dispatch_Lowered(s) ==
    [s EXCEPT !.sent = Append(@, Lower(s.user_input)), !.dispatched = @ + 1,
              !.pc = "sending", !.turn_state = "STREAMING"]

\* chat.send_message_stream(user_input) is called
Dispatch(s) ==
    [s EXCEPT !.sent = Append(@, s.user_input), !.dispatched = @ + 1,
              !.pc = "sending", !.turn_state = "STREAMING"]

\* the head of the retry loop: processing.start(), log_llm_request, and the
\* call of chat.send_message_stream(user_input)
BeginAttempt ==
    /\ pc = "attempt"
    /\ IF ~RetryLeft(retry_count)
       THEN Commit([Cur EXCEPT !.pc = "prompt"])
       ELSE LET s1 == [Cur EXCEPT !.running = TRUE, !.iteration = @ + 1,
                                  !.observed = <<>>,
                                  !.reported = [printed |-> FALSE, names |-> <<>>]] IN
            \E ok \in WriteOutcomes(s1) :
               IF ~ok THEN ExceptHandler(WriteRaises(s1), "logger")
               ELSE Commit(Dispatch(WriteLog(s1, LlmRequestRec(s1.call_id))))

\* send_message_stream returns the stream: the attempt's locals are reset
SendReturns ==
    /\ pc = "sending"
    /\ Commit([Cur EXCEPT !.full_response = <<>>,
                          !.tool_calls_made = [bound |-> TRUE, names |-> <<>>],
                          !.response_started = FALSE,
                          !.stream_calls = <<>>,
                          !.pc = "stream"])

\* send_message_stream raises before any chunk
SendRaises ==
    /\ pc = "sending"
    /\ MayHappen(Cur)
    /\ ExceptHandler([Event(Cur) EXCEPT !.outcomes = Append(@, "exception")],
                     "transport")

\* the text part of the loop body, applied to state s
TakeText(s, chunk) ==
    LET arrived == [iteration |-> s.iteration, text |-> chunk.text] IN
    IF chunk.has_text /\ NonBlank(chunk.text)
    THEN [s EXCEPT !.running = IF s.response_started THEN @ ELSE FALSE,
                   !.response_started = TRUE,
                   !.shown = IF s.response_started THEN @ ELSE @ \cup {"compiling"},
                   !.full_response = AddText(@, chunk.text),
                   !.fragments = Append(@, arrived)]
    ELSE IF chunk.has_text
         THEN [s EXCEPT !.full_response = AddText(@, chunk.text),
                        !.fragments = Append(@, arrived)]
         ELSE s

\* one chunk of the stream (a chunk of the model has at most one function_call part)
StreamChunk ==
    /\ pc = "stream"
    /\ MayHappen(Cur)
    /\ \E chunk \in Chunks :
          LET s0 == Event(Cur) IN
          IF chunk.calls = <<>>
          THEN Commit(TakeText(s0, chunk))
          ELSE LET tool == chunk.calls[1]
                   s1 == [s0 EXCEPT !.stream_calls = Append(@, tool),
                                    !.observed = Append(@, tool)]
               IN IF ~NotYetCalled(s1.tool_calls_made.names, tool)
                  THEN Commit(TakeText(s1, chunk))
                  ELSE LET s2 == [s1 EXCEPT
                                    !.tool_calls_made.names = Append(@, tool),
                                    !.running = FALSE,
                                    !.announced = Append(@, [call_id |-> s1.call_id,
                                                             iteration |-> s1.iteration,
                                                             tool |-> tool])]
                       IN \E ok \in WriteOutcomes(s2) :
                             IF ~ok THEN ExceptHandler(WriteRaises(s2), "logger")
                             ELSE Commit(TakeText(
                                      [WriteLog(s2, ToolCallRec(s2.call_id, tool))
                                          EXCEPT !.running = TRUE], chunk))

\* the stream raises while it is consumed
StreamRaises ==
    /\ pc = "stream"
    /\ MayHappen(Cur)
    /\ ExceptHandler([Event(Cur) EXCEPT !.outcomes = Append(@, "exception")],
                     "transport")

\* the stream ends: log_llm_response, then success, retry or give up
StreamEnd ==
    /\ pc = "stream"
    /\ LET s0 == [Cur EXCEPT !.outcomes =
                      Append(@, IF NonBlank(full_response) THEN "text" ELSE "empty")]
       IN \E ok \in WriteOutcomes(s0) :
          IF ~ok THEN ExceptHandler(WriteRaises(s0), "logger")
          ELSE LET s1 == WriteLog(s0, LlmResponseRec(s0.call_id)) IN
               IF NonBlank(s1.full_response)
               THEN Commit([Shows(s1, {"answer"}) EXCEPT
                               !.pc = "prompt", !.turn_state = "SUCCESS"])
               ELSE LET s1r == [s1 EXCEPT !.running = FALSE, !.retry_count = @ + 1]
                        s2 == Shows(s1r, IF RetryLeft(s1r.retry_count)
                                         THEN {"retrying"} ELSE {"try_again"})
                    IN
                    \E ok2 \in WriteOutcomes(s2) :
                       IF ~ok2 THEN ExceptHandler(WriteRaises(s2), "logger")
                       ELSE IF RetryLeft(s2.retry_count)
                            THEN Commit([WriteLog(s2, ErrorRec(s2.call_id, "empty_retry"))
                                            EXCEPT !.pc = "sleep",
                                                   !.turn_state = "PENDING"])
                            ELSE Commit([WriteLog(s2, ErrorRec(s2.call_id, "empty_final"))
                                            EXCEPT !.pc = "prompt",
                                                   !.turn_state = "FAILED"])

\* asyncio.sleep(2) or asyncio.sleep(3) returns: `continue`
BackoffElapses ==
    /\ pc = "sleep"
    /\ Commit([Cur EXCEPT !.pc = "attempt"])

\* Ctrl-C while the turn is suspended (send, stream or sleep): not an Exception,
\* so no handler of run() catches it; the `async with` block closes the client
\* and __main__ swallows the KeyboardInterrupt.
InterruptTurn ==
    /\ pc \in {"sending", "stream", "sleep"}
    /\ Commit([LeaveClient(Cur) EXCEPT !.pc = "done",
                                       !.exit_reason = "turn_interrupt"])

Next ==
    \/ StartNoUrl
    \/ StartOpen
    \/ StartOpenRaises
    \/ ConnectOk
    \/ ConnectRaises
    \/ ReadInterrupted
    \/ ReadExit
    \/ ReadQuery
    \/ BeginAttempt
    \/ SendReturns
    \/ SendRaises
    \/ StreamChunk
    \/ StreamRaises
    \/ StreamEnd
    \/ BackoffElapses
    \/ InterruptTurn

Spec == Init /\ [][Next]_vars

\* The run with its scheduling: the retry loop goes on when it can, a call of
\* send_message_stream returns or raises, a stream ends or raises, and a
\* backoff wait elapses.
SpecLive ==
    /\ Init
    /\ [][Next]_vars
    /\ WF_vars(BeginAttempt)
    /\ WF_vars(SendReturns \/ SendRaises)
    /\ WF_vars(StreamEnd \/ StreamRaises)
    /\ WF_vars(BackoffElapses)

(***************************************************************************)
(* DetailedLogger._sanitize_for_log                                        *)
(***************************************************************************)
SanChars == {"a", "b"}

RECURSIVE SeqsUpTo(_, _)
SeqsUpTo(S, n) ==
    IF n = 0 THEN {<<>>}
    ELSE LET shorter == SeqsUpTo(S, n - 1)
         IN shorter \cup {Append(s, x) : s \in shorter, x \in S}

Value(type, chars, items, n, circular) ==
    [type |-> type, chars |-> chars, items |-> items, n |-> n, circular |-> circular]

\* the values passed as data: a str, a list of strs (one of them a list that
\* contains itself), an int
SanInputs ==
    {Value("str", s, <<>>, 0, FALSE) : s \in SeqsUpTo(SanChars, MaxLen)}
        \cup {Value("list", <<>>, l, 0, FALSE) : l \in SeqsUpTo(SeqsUpTo(SanChars, 1), 2)}
        \cup {Value("list", <<>>, <<>>, 0, TRUE)}
        \cup {Value("int", <<>>, <<>>, k, FALSE) : k \in {0, 42, 1000}}

Marker == <<".", ".", ".">>

JsonString(s) == <<"\"">> \o s \o <<"\"">>

RECURSIVE JsonItems(_)
JsonItems(items) ==
    IF Len(items) = 1 THEN JsonString(items[1])
    ELSE JsonString(Head(items)) \o <<",", "\n", " ", " ">> \o JsonItems(Tail(items))

\* json.dumps(data, indent=2, default=str) of a list of strs
JsonDumps(items) ==
    IF items = <<>> THEN <<"[", "]">>
    ELSE <<"[", "\n", " ", " ">> \o JsonItems(items) \o <<"\n", "]">>

\* f"<Error serializing data: {str(e)}>" for json.dumps's ValueError
ErrorText ==
    <<"<", "E", "r", "r", "o", "r", " ", "s", "e", "r", "i", "a", "l",
    "i", "z", "i", "n", "g", " ", "d", "a", "t", "a", ":", " ", "C", "i",
    "r", "c", "u", "l", "a", "r", " ", "r", "e", "f", "e", "r", "e", "n",
    "c", "e", " ", "d", "e", "t", "e", "c", "t", "e", "d", ">">>

Truncate_KeepsOneMore(s, max_length) ==
    IF Len(s) > max_length THEN SubSeq(s, 1, max_length + 1) \o Marker ELSE s

\* x[:max_length] + "..." if len(x) > max_length else x
Truncate(s, max_length) ==
    IF Len(s) > max_length THEN SubSeq(s, 1, max_length) \o Marker ELSE s

\* json.dumps raises on data (a circular reference)
DumpsRaises(data) == data.type = "list" /\ data.circular

\* the text the branches of _sanitize_for_log cut: data itself, its JSON text
\* or str(data)
TextForm(data) ==
    IF data.type = "str" THEN data.chars
    ELSE IF data.type = "list" THEN JsonDumps(data.items)
    ELSE Digits(data.n)

SanitizeForLog(data, max_length) ==
    IF DumpsRaises(data) THEN ErrorText
    ELSE Truncate(TextForm(data), max_length)

InitSanitize ==
    /\ InitRun
    /\ san_state = "called"
    /\ san_data \in SanInputs
    /\ san_max_length \in 1..MaxCap
    /\ san_result = <<>>
    /\ anim_task = "none"
    /\ anim_running = FALSE
    /\ timeout_counter = 0
    /\ cancel_requested = FALSE
    /\ ticks = 0
    /\ owner_stopped = FALSE
    /\ InitScripts

SanitizeReturns ==
    /\ san_state = "called"
    /\ san_result' = SanitizeForLog(san_data, san_max_length)
    /\ san_state' = "returned"
    /\ UNCHANGED <<san_data, san_max_length>>
    /\ UNCHANGED run_vars
    /\ UNCHANGED anim_vars
    /\ UNCHANGED <<agent_vars, ind_vars, browser_vars>>

NextSanitize == SanitizeReturns

SpecSanitize == InitSanitize /\ [][NextSanitize]_vars

(***************************************************************************)
(* ProcessingAnimation: one indicator and the task its start() creates.    *)
(* The task is suspended only before its first run and in asyncio.sleep;   *)
(* what it does between two suspensions is one step.  The owner may call   *)
(* stop() whenever the task is suspended, or never.                        *)
(***************************************************************************)
\* the loop condition of _animate
MayTick(is_running, counter) == is_running /\ counter < max_timeout

TimeoutReached_Never(counter) == FALSE

\* `if timeout_counter >= max_timeout` after the loop
TimeoutReached(counter) == counter >= max_timeout

\* processing.start(): the flag is set and the task is created
StartAnimation ==
    /\ anim_task = "none"
    /\ ~anim_running
    /\ anim_running' = TRUE
    /\ anim_task' = "created"
    /\ UNCHANGED <<timeout_counter, cancel_requested, ticks, owner_stopped>>
    /\ UNCHANGED <<run_vars, san_vars, agent_vars, ind_vars, browser_vars>>

\* one iteration of the loop body up to asyncio.sleep: a frame is written
Tick ==
    /\ ticks' = ticks + 1
    /\ timeout_counter' = timeout_counter + 1
    /\ anim_task' = "sleeping"
    /\ UNCHANGED <<anim_running, cancel_requested, owner_stopped>>

\* the code after the loop: stop() when the ceiling was reached, then return
LeaveLoop ==
    /\ anim_running' = IF TimeoutReached(timeout_counter) THEN FALSE ELSE anim_running
    /\ anim_task' = "finished"
    /\ UNCHANGED <<timeout_counter, cancel_requested, ticks, owner_stopped>>

\* the task is scheduled for the first time; a task cancelled before that never runs
AnimateBegins ==
    /\ anim_task = "created"
    /\ IF cancel_requested
       THEN /\ anim_task' = "finished"
            /\ UNCHANGED <<anim_running, timeout_counter, cancel_requested, ticks,
                           owner_stopped>>
       ELSE IF MayTick(anim_running, timeout_counter) THEN Tick ELSE LeaveLoop
    /\ UNCHANGED <<run_vars, san_vars, agent_vars, ind_vars, browser_vars>>

\* asyncio.sleep(0.1) returns: the loop condition is tested again
SleepReturns ==
    /\ anim_task = "sleeping"
    /\ ~cancel_requested
    /\ IF MayTick(anim_running, timeout_counter) THEN Tick ELSE LeaveLoop
    /\ UNCHANGED <<run_vars, san_vars, agent_vars, ind_vars, browser_vars>>

\* asyncio.sleep(0.1) raises CancelledError: break
SleepCancelled ==
    /\ anim_task = "sleeping"
    /\ cancel_requested
    /\ LeaveLoop
    /\ UNCHANGED <<run_vars, san_vars, agent_vars, ind_vars, browser_vars>>

\* the owner calls processing.stop() while the indicator runs
OwnerStops ==
    /\ anim_running
    /\ anim_task \in {"created", "sleeping"}
    /\ anim_running' = FALSE
    /\ cancel_requested' = TRUE
    /\ owner_stopped' = TRUE
    /\ UNCHANGED <<anim_task, timeout_counter, ticks>>
    /\ UNCHANGED <<run_vars, san_vars, agent_vars, ind_vars, browser_vars>>

AnimateRuns == AnimateBegins \/ SleepReturns \/ SleepCancelled

NextAnimate ==
    \/ StartAnimation
    \/ AnimateBegins
    \/ SleepReturns
    \/ SleepCancelled
    \/ OwnerStops

\* the event loop keeps running the task whenever it is ready
SpecAnimate == Init /\ [][NextAnimate]_vars /\ WF_vars(StartAnimation) /\ WF_vars(AnimateRuns)

(***************************************************************************)
(* Definitions used to state the properties                                *)
(***************************************************************************)
Indices(s) == 1..Len(s)

RECURSIVE FirstOccurrences(_)
FirstOccurrences(s) ==
    IF s = <<>> THEN <<>>
    ELSE LET front == FirstOccurrences(SubSeq(s, 1, Len(s) - 1))
             last == s[Len(s)]
         IN IF \E i \in Indices(front) : front[i] = last THEN front
            ELSE Append(front, last)

NoDuplicates(s) == \A i, j \in Indices(s) : i # j => s[i] # s[j]

DigitValue(c) == CHOOSE d \in 0..9 : DigitChars[d + 1] = c

RECURSIVE DigitsValue(_)
DigitsValue(ds) ==
    IF ds = <<>> THEN 0
    ELSE 10 * DigitsValue(SubSeq(ds, 1, Len(ds) - 1)) + DigitValue(ds[Len(ds)])

\* the sequence number a call id carries after "<session_id>-"
SequenceNumber(cid) == DigitsValue(SubSeq(cid, 3, Len(cid)))

\* every iteration of the turn's retry loop got a stream, which ended or raised
EveryAttemptHasOutcome == Len(outcomes) = iteration

AllEmpty(outs) == \A i \in Indices(outs) : outs[i] = "empty"
AllFailed(outs) == \A i \in Indices(outs) : outs[i] \in {"empty", "exception"}

ToolCallRecords(cid, tool) ==
    {i \in Indices(log) : log[i].kind = "tool_call" /\ log[i].call_id = cid
                            /\ log[i].ctx = tool}

Announcements(cid, tool) ==
    {i \in Indices(announced) : announced[i].call_id = cid /\ announced[i].tool = tool}

HasSessionEnd == \E i \in Indices(log) : log[i].kind = "session_end"

EndedByException == pc = "done" /\ exit_reason \in {"escaped", "crashed"}

(***************************************************************************)
(* C1: a turn in which every attempt's stream completes with no non-blank  *)
(* text ends FAILED after exactly max_retries dispatched attempts, and no  *)
(* turn ever has more than max_retries attempts dispatched.                *)
(***************************************************************************)
C1_EmptyTurnFailsAfterMaxRetries ==
    /\ dispatched <= max_retries
    /\ (turn_state = "FAILED" /\ EveryAttemptHasOutcome /\ AllEmpty(outcomes))
          => dispatched = max_retries

(***************************************************************************)
(* C2: never more than max_retries attempts are dispatched, and a turn is  *)
(* FAILED exactly when its first max_retries attempts each ended in an     *)
(* exception or an empty response, in any mix.                             *)
(***************************************************************************)
C2_FailedIffMaxRetriesFailures ==
    /\ dispatched <= max_retries
    /\ (turn_state = "FAILED" /\ EveryAttemptHasOutcome) =>
          /\ Len(outcomes) = max_retries
          /\ AllFailed(outcomes)
    /\ (Len(outcomes) >= max_retries /\ AllFailed(SubSeq(outcomes, 1, max_retries))
          /\ pc = "prompt") => turn_state = "FAILED"

(***************************************************************************)
(* C3: once an attempt has completed with non-blank text the turn is       *)
(* SUCCESS, that attempt is the turn's last, and nothing more is           *)
(* dispatched for the turn (as long as run() has not been left).           *)
(***************************************************************************)
C3_TextEndsTheTurn ==
    (pc # "done" /\ \E i \in Indices(outcomes) : outcomes[i] = "text") =>
        /\ turn_state = "SUCCESS"
        /\ outcomes[Len(outcomes)] = "text"
        /\ dispatched = Len(outcomes)

(***************************************************************************)
(* C4: tool_calls_made holds each tool name of the stream consumed so far  *)
(* once, in the order of first occurrence.                                 *)
(***************************************************************************)
C4_ToolCallsFirstOccurrenceOrder ==
    tool_calls_made.bound =>
        /\ NoDuplicates(tool_calls_made.names)
        /\ tool_calls_made.names = FirstOccurrences(stream_calls)

C4_Witness ==
    /\ pc = "stream"
    /\ stream_calls = <<"t1", "t2", "t1">>
    /\ tool_calls_made.names = <<"t1", "t2">>

(***************************************************************************)
(* C5 as stated: within one turn, retries included, a tool name is         *)
(* announced at most once and at most one tool_call record carries the     *)
(* identifier {call_id}-tool-{tool_name} (checked on the runs in which     *)
(* every logger write succeeds).                                           *)
(***************************************************************************)
C5_OncePerTurn ==
    ~write_failed =>
    \A cid \in {FormatCallId(n) : n \in 1..MaxEvents}, tool \in ToolNames :
        /\ Cardinality(Announcements(cid, tool)) <= 1
        /\ Cardinality(ToolCallRecords(cid, tool)) <= 1

(***************************************************************************)
(* C5 amended: within one attempt a tool name is announced at most once,   *)
(* and a tool_call record is written only for an announcement; a retry     *)
(* attempt starts from an empty tool_calls_made and announces again.       *)
(***************************************************************************)
C5_OncePerAttempt ==
    /\ NoDuplicates(announced)
    /\ \A cid \in {FormatCallId(n) : n \in 1..MaxEvents}, tool \in ToolNames :
          Cardinality(ToolCallRecords(cid, tool)) <= Cardinality(Announcements(cid, tool))

C5_Witness ==
    \E i, j \in Indices(announced) :
        /\ announced[i].call_id = announced[j].call_id
        /\ announced[i].tool = announced[j].tool
        /\ announced[i].iteration < announced[j].iteration
        /\ Cardinality(ToolCallRecords(announced[i].call_id, announced[i].tool)) = 2

(***************************************************************************)
(* C6: the call ids returned by log_user_query are pairwise distinct and   *)
(* the i-th of them carries the sequence number i.                         *)
(***************************************************************************)
C6_CallIdsDistinctAndIncreasing ==
    /\ NoDuplicates(issued)
    /\ \A i \in Indices(issued) : SequenceNumber(issued[i]) = i

C6_Witness ==
    /\ Len(issued) >= 2
    /\ \E i \in Indices(log) : log[i].kind = "error" /\ log[i].call_id = issued[1]

(***************************************************************************)
(* C7 as stated, for a str argument: the payload returned is never longer  *)
(* than max_length.                                                        *)
(***************************************************************************)
C7_PayloadWithinCap ==
    (san_state = "returned" /\ san_data.type = "str") =>
        Len(san_result) <= san_max_length

(***************************************************************************)
(* C7 amended: when the data can be serialised, the payload is at most     *)
(* max_length + 3 long; a text longer than max_length is cut to its first  *)
(* max_length characters followed by the marker "...", and a text within   *)
(* max_length is returned unchanged.                                       *)
(***************************************************************************)
C7_PayloadWithinCapPlusMarker ==
    (san_state = "returned" /\ ~DumpsRaises(san_data)) =>
        LET text == TextForm(san_data) IN
        /\ Len(san_result) <= san_max_length + 3
        /\ Len(text) <= san_max_length => san_result = text
        /\ Len(text) > san_max_length =>
              /\ Len(san_result) = san_max_length + 3
              /\ \A i \in 1..san_max_length : san_result[i] = text[i]
              /\ \A i \in (san_max_length + 1)..(san_max_length + 3) : san_result[i] = "."

C7_Witness ==
    /\ san_state = "returned"
    /\ san_data.type = "str"
    /\ Len(san_data.chars) = 3
    /\ san_max_length = 2
    /\ Len(san_result) = 5

(***************************************************************************)
(* C8: a logger write that raises never aborts the conversation: once a    *)
(* turn has been submitted, run() is not left through an exception because *)
(* of it.                                                                  *)
(***************************************************************************)
C8_LogFailureNeverAborts ==
    (write_failed /\ call_counter > 0) => ~EndedByException

(***************************************************************************)
(* C9: an exception raised by the transport during an attempt is a         *)
(* retryable failure of the turn: with every logger write succeeding, the  *)
(* loop is left only through an exit word, EOF or an interrupt.            *)
(***************************************************************************)
C9_AttemptExceptionNeverEndsLoop ==
    (~write_failed /\ call_counter > 0 /\ pc = "done") =>
        exit_reason \in {"exit", "eof", "prompt_interrupt", "turn_interrupt"}

(***************************************************************************)
(* C10: an interrupt while a turn is in flight ends the session as an exit *)
(* command does: a session_end record is written and the gateway closed.   *)
(***************************************************************************)
C10_TurnInterruptShutsDownCleanly ==
    exit_reason = "turn_interrupt" => (HasSessionEnd /\ gateway = "closed")

(***************************************************************************)
(* Definitions used to state the properties of the later sections          *)
(***************************************************************************)
RecordsOf(l, kind, cid) == {i \in Indices(l) : l[i].kind = kind /\ l[i].call_id = cid}

SessionEnds(l) == {i \in Indices(l) : l[i].kind = "session_end"}

ErrorsWith(l, cid, ctxs) ==
    {i \in Indices(l) : l[i].kind = "error" /\ l[i].call_id = cid /\ l[i].ctx \in ctxs}

RECURSIVE TextOf(_, _)
TextOf(frags, it) ==
    IF frags = <<>> THEN <<>>
    ELSE (IF Head(frags).iteration = it THEN Head(frags).text ELSE <<>>)
             \o TextOf(Tail(frags), it)

(***************************************************************************)
(* C11: when the user enters an exit keyword at the prompt, the shell      *)
(* terminates, exactly one session_end record is in the log, and the exit  *)
(* input creates no turn: no call id is allocated and no request is        *)
(* dispatched for it.                                                      *)
(***************************************************************************)
C11_ExitEndsSessionOnce ==
    [][(pc = "prompt" /\ pc' = "done" /\ Lower(user_input') \in ExitWords) =>
          /\ Cardinality(SessionEnds(log')) = 1
          /\ call_counter' = call_counter
          /\ issued' = issued
          /\ dispatched' = dispatched]_vars

(***************************************************************************)
(* C12: the final text of a successful turn is the concatenation, in       *)
(* arrival order, of the text fragments of the attempt that succeeded; it  *)
(* holds nothing of the earlier attempts of the turn, and tool invocations *)
(* between the fragments do not alter it.                                  *)
(***************************************************************************)
C12_FinalTextIsOfSuccessfulAttempt ==
    turn_state = "SUCCESS" => full_response = TextOf(fragments, iteration)

C12_Witness ==
    /\ turn_state = "SUCCESS"
    /\ iteration = 2
    /\ \E i \in Indices(fragments) : fragments[i].iteration = 1 /\ NonBlank(fragments[i].text)
    /\ tool_calls_made.names # <<>>

(***************************************************************************)
(* C13: every attempt of a turn, the first one and each retry, sends the   *)
(* original line of the turn to the chat transport, unmodified.            *)
(***************************************************************************)
C13_EveryAttemptSendsOriginalText ==
    /\ Len(sent) = dispatched
    /\ \A i \in Indices(sent) : sent[i] = asked

C13_Witness ==
    /\ asked = "ETH gas"
    /\ Len(sent) = max_retries
    /\ turn_state = "STREAMING"

(***************************************************************************)
(* C14: in a turn whose first k attempts (1 <= k < max_retries) each raise *)
(* a transport error and whose next attempt yields non-empty text, the     *)
(* turn succeeds on attempt k+1 and the log holds for its call id exactly  *)
(* k error records and exactly one llm_response record.                    *)
(***************************************************************************)
C14_RetriedTurnSucceedsWithOneResponse ==
    LET n == Len(outcomes) IN
    (/\ EveryAttemptHasOutcome
     /\ n \in 2..max_retries
     /\ outcomes[n] = "text"
     /\ \A i \in 1..(n - 1) : outcomes[i] = "exception") =>
        /\ turn_state = "SUCCESS"
        /\ dispatched = n
        /\ Cardinality(RecordsOf(log, "error", call_id)) = n - 1
        /\ Cardinality(RecordsOf(log, "llm_response", call_id)) = 1

(***************************************************************************)
(* C15: in a turn whose max_retries attempts all complete with no text,    *)
(* the turn is FAILED and the log holds for its call id one retry error    *)
(* entry per attempt (max_retries entries) and one final error entry       *)
(* (checked on the runs in which every logger write succeeds).             *)
(***************************************************************************)
C15_EmptyTurnLogsRetryPerAttempt ==
    (~write_failed /\ EveryAttemptHasOutcome /\ Len(outcomes) = max_retries
        /\ AllEmpty(outcomes)) =>
        /\ turn_state = "FAILED"
        /\ Cardinality(ErrorsWith(log, call_id, {"empty_retry"})) = max_retries
        /\ Cardinality(ErrorsWith(log, call_id, {"empty_final"})) = 1

(***************************************************************************)
(* C16: when a turn has reached SUCCESS or FAILED and the shell is back at *)
(* the prompt, the progress indicator of the turn is stopped (checked on   *)
(* the runs in which every logger write succeeds).                         *)
(***************************************************************************)
C16_IndicatorStoppedAtPrompt ==
    (~write_failed /\ pc = "prompt" /\ turn_state \in {"SUCCESS", "FAILED"}) => ~running

(***************************************************************************)
(* C17: a started indicator task writes at most max_timeout frames; after  *)
(* the max_timeout-th frame it terminates by itself, and when it has       *)
(* terminated the indicator is stopped, also when the owner never calls    *)
(* stop().                                                                 *)
(***************************************************************************)
C17_IndicatorStopsItself ==
    /\ [](ticks <= max_timeout)
    /\ [](anim_task = "finished" => ~anim_running)
    /\ (ticks = max_timeout) ~> (anim_task = "finished" /\ ~anim_running)

C17_Witness ==
    /\ anim_task = "finished"
    /\ ticks = max_timeout
    /\ ~owner_stopped
    /\ ~anim_running

(***************************************************************************)
(* C18: list_tools is attempted at most connect_max_retries times, a       *)
(* success stops the retries, and a run that ends because the connection   *)
(* test failed or the URL is not configured has read no query and          *)
(* dispatched nothing.                                                     *)
(***************************************************************************)
C18_ConnectionTestStopsAtSuccess ==
    /\ Len(list_tools) <= connect_max_retries
    /\ \A i \in Indices(list_tools) : list_tools[i] = "ok" => i = Len(list_tools)
    /\ exit_reason \in {"connect_failed", "no_url"} =>
          /\ issued = <<>>
          /\ call_counter = 0
          /\ sent = <<>>

(***************************************************************************)
(* C19: no exception text is shown to the user during a turn (checked on   *)
(* the runs in which every logger write succeeds and no exception has left *)
(* the retry loop).                                                        *)
(***************************************************************************)
C19_NoExceptionTextShown ==
    (~write_failed /\ raised_by = "none") => "exception_text" \notin shown

(***************************************************************************)
(* C20: once a turn is over, every tool_call record written for its call   *)
(* id is followed in the log by a tool_response record that carries the    *)
(* same {call_id}-tool-{tool_name} identifier (checked on the runs in      *)
(* which every logger write succeeds).                                     *)
(***************************************************************************)
C20_ToolCallHasResponse ==
    (~write_failed /\ pc = "prompt" /\ turn_state \in {"SUCCESS", "FAILED"}) =>
        \A i \in RecordsOf(log, "tool_call", call_id) :
            \E j \in Indices(log) :
                /\ j > i
                /\ log[j].kind = "tool_response"
                /\ log[j].tool_call_id = log[i].tool_call_id

(***************************************************************************)
(* ProcessingAnimation under any sequence of start() and stop() calls.     *)
(* The tasks start() creates run on one event loop: a created or woken     *)
(* task waits in the loop's ready queue, which is served first in first    *)
(* out; a sleeping task is woken by its timer, or at once by task.cancel().*)
(***************************************************************************)
Task(state, counter, cancel) == [state |-> state, counter |-> counter, cancel |-> cancel]

TheIndicator ==
    [running |-> ind_running, task |-> ind_task, tasks |-> ind_tasks, ready |-> ind_ready]

SetIndicator(s) ==
    /\ ind_running' = s.running
    /\ ind_task' = s.task
    /\ ind_tasks' = s.tasks
    /\ ind_ready' = s.ready

CancelTask_Forgets(s, i) == s

\* self.task.cancel(): nothing for a finished task; a sleeping task is woken to
\* receive CancelledError; a task not yet resumed receives it when it is resumed
CancelTask(s, i) ==
    IF s.tasks[i].state = "finished" THEN s
    ELSE IF s.tasks[i].state = "sleeping"
         THEN [s EXCEPT !.tasks[i].cancel = TRUE, !.tasks[i].state = "woken",
                        !.ready = Append(@, i)]
         ELSE [s EXCEPT !.tasks[i].cancel = TRUE]

\* ProcessingAnimation.start()
IndicatorStart(s) ==
    IF s.running THEN s
    ELSE [s EXCEPT !.running = TRUE,
                   !.tasks = Append(@, Task("created", 0, FALSE)),
                   !.task = Len(s.tasks) + 1,
                   !.ready = Append(@, Len(s.tasks) + 1)]

\* ProcessingAnimation.stop()
IndicatorStop(s) ==
    IF ~s.running THEN s
    ELSE LET s1 == [s EXCEPT !.running = FALSE]
         IN IF s1.task # 0 THEN CancelTask(s1, s1.task) ELSE s1

\* task i leaves the loop of _animate and returns
TaskReturns(s, i) ==
    LET s1 == IF TimeoutReached(s.tasks[i].counter) THEN IndicatorStop(s) ELSE s
    IN [s1 EXCEPT !.tasks[i] = Task("finished", 0, FALSE)]

\* task i is resumed by the event loop
TaskResumes(s, i) ==
    IF s.tasks[i].cancel
    THEN IF s.tasks[i].state = "created"
         THEN [s EXCEPT !.tasks[i] = Task("finished", 0, FALSE)]
         ELSE TaskReturns(s, i)
    ELSE IF MayTick(s.running, s.tasks[i].counter)
         THEN [s EXCEPT !.tasks[i].counter = @ + 1, !.tasks[i].state = "sleeping"]
         ELSE TaskReturns(s, i)

\* the owner calls start()
OwnerCallsStart ==
    /\ ind_calls < MaxCalls
    /\ ind_calls' = ind_calls + 1
    /\ SetIndicator(IndicatorStart(TheIndicator))
    /\ UNCHANGED <<run_vars, san_vars, anim_vars, agent_vars, browser_vars>>

\* the owner calls stop()
OwnerCallsStop ==
    /\ ind_calls < MaxCalls
    /\ ind_calls' = ind_calls + 1
    /\ SetIndicator(IndicatorStop(TheIndicator))
    /\ UNCHANGED <<run_vars, san_vars, anim_vars, agent_vars, browser_vars>>

\* the timer of asyncio.sleep(0.1) fires: the task becomes ready
TimerFires ==
    /\ \E i \in 1..Len(ind_tasks) :
          /\ ind_tasks[i].state = "sleeping"
          /\ ind_tasks' = [ind_tasks EXCEPT ![i].state = "woken"]
          /\ ind_ready' = Append(ind_ready, i)
    /\ UNCHANGED <<ind_running, ind_task, ind_calls>>
    /\ UNCHANGED <<run_vars, san_vars, anim_vars, agent_vars, browser_vars>>

\* the event loop resumes the first task of its ready queue
LoopRunsTask ==
    /\ ind_ready # <<>>
    /\ SetIndicator(TaskResumes([TheIndicator EXCEPT !.ready = Tail(@)], Head(ind_ready)))
    /\ UNCHANGED ind_calls
    /\ UNCHANGED <<run_vars, san_vars, anim_vars, agent_vars, browser_vars>>

NextIndicator ==
    \/ OwnerCallsStart
    \/ OwnerCallsStop
    \/ TimerFires
    \/ LoopRunsTask

SpecIndicator == Init /\ [][NextIndicator]_vars

(***************************************************************************)
(* scripts/gemini-mcp-agent: the chat loop of main()                       *)
(***************************************************************************)
AgentLines == {"rooms in Paris", "cheaper ones", "EXIT", "exit"}
AgentReplies == {"reply a", "reply b", "reply c"}

Message(role, text) == [role |-> role, text |-> text]

\* `inputs["messages"] == state["messages"]`: a comparison, its value is dropped
UpdateInputs(messages, state_messages) == messages

\* input() returns "exit" in any letter case
AgentReadExit ==
    /\ agent_pc = "prompt"
    /\ \E line \in AgentLines :
          /\ Lower(line) = "exit"
          /\ agent_pc' = "done"
    /\ UNCHANGED <<agent_inputs, agent_state, agent_sent>>
    /\ UNCHANGED <<run_vars, san_vars, anim_vars, ind_vars, browser_vars>>

\* any other line is appended as a user message and the graph is called
AgentReadLine ==
    /\ agent_pc = "prompt"
    /\ Len(agent_sent) < MaxAgentTurns
    /\ \E line \in AgentLines :
          /\ Lower(line) # "exit"
          /\ agent_inputs' = Append(agent_inputs, Message("user", line))
          /\ agent_sent' = Append(agent_sent, agent_inputs')
          /\ agent_state' = agent_inputs'
          /\ agent_pc' = "streaming"
    /\ UNCHANGED <<run_vars, san_vars, anim_vars, ind_vars, browser_vars>>

\* the stream ends with the state that holds the agent's reply; line 61 follows
AgentStreamEnds ==
    /\ agent_pc = "streaming"
    /\ \E reply \in AgentReplies :
          /\ agent_state' = Append(agent_state, Message("ai", reply))
          /\ agent_inputs' = UpdateInputs(agent_inputs, agent_state')
    /\ agent_pc' = "prompt"
    /\ UNCHANGED agent_sent
    /\ UNCHANGED <<run_vars, san_vars, anim_vars, ind_vars, browser_vars>>

\* input() or the graph raises: the exception leaves main()
AgentRaises ==
    /\ agent_pc \in {"prompt", "streaming"}
    /\ agent_pc' = "done"
    /\ UNCHANGED <<agent_inputs, agent_state, agent_sent>>
    /\ UNCHANGED <<run_vars, san_vars, anim_vars, ind_vars, browser_vars>>

NextAgent ==
    \/ AgentReadExit
    \/ AgentReadLine
    \/ AgentStreamEnds
    \/ AgentRaises

SpecAgent == Init /\ [][NextAgent]_vars

(***************************************************************************)
(* scripts/gemini-browser-use: the interactive loop of main()              *)
(***************************************************************************)
BrowserLines == {"find flights", "quit", "EXIT", "Q"}
BrowserExitWords == {"quit", "exit", "q"}

\* input() returns one of the exit words: break
BrowserReadExit ==
    /\ browser_pc = "prompt"
    /\ stdin_state = "open"
    /\ \E line \in BrowserLines :
          /\ Lower(line) \in BrowserExitWords
          /\ browser_pc' = "closing"
    /\ UNCHANGED <<stdin_state, eof_reads, browser_results, browser_closed>>
    /\ UNCHANGED <<run_vars, san_vars, anim_vars, agent_vars, ind_vars>>

\* input() returns a task: agent_loop is awaited
BrowserReadQuery ==
    /\ browser_pc = "prompt"
    /\ stdin_state = "open"
    /\ Len(browser_results) < MaxBrowserTurns
    /\ \E line \in BrowserLines :
          /\ Lower(line) \notin BrowserExitWords
          /\ browser_pc' = "agent"
    /\ UNCHANGED <<stdin_state, eof_reads, browser_results, browser_closed>>
    /\ UNCHANGED <<run_vars, san_vars, anim_vars, agent_vars, ind_vars>>

\* terminal input is at end of file: input() raises EOFError, which
\* `except Exception` catches; the error is printed and the loop goes on
BrowserReadEof ==
    /\ browser_pc = "prompt"
    /\ eof_reads < MaxReads
    /\ stdin_state' = "eof"
    /\ eof_reads' = eof_reads + 1
    /\ browser_pc' = "prompt"
    /\ UNCHANGED <<browser_results, browser_closed>>
    /\ UNCHANGED <<run_vars, san_vars, anim_vars, agent_vars, ind_vars>>

\* KeyboardInterrupt at the prompt: break
BrowserReadInterrupted ==
    /\ browser_pc = "prompt"
    /\ browser_pc' = "closing"
    /\ UNCHANGED <<stdin_state, eof_reads, browser_results, browser_closed>>
    /\ UNCHANGED <<run_vars, san_vars, anim_vars, agent_vars, ind_vars>>

\* agent_loop returns its result, or raises and the error is printed
BrowserAgentEnds ==
    /\ browser_pc = "agent"
    /\ \E result \in {"result", "error"} :
          browser_results' = Append(browser_results, result)
    /\ browser_pc' = "prompt"
    /\ UNCHANGED <<stdin_state, eof_reads, browser_closed>>
    /\ UNCHANGED <<run_vars, san_vars, anim_vars, agent_vars, ind_vars>>

\* browser.close() returns or raises; main() returns
BrowserClose ==
    /\ browser_pc = "closing"
    /\ \E outcome \in {"closed", "close_failed"} : browser_closed' = outcome
    /\ browser_pc' = "done"
    /\ UNCHANGED <<stdin_state, eof_reads, browser_results>>
    /\ UNCHANGED <<run_vars, san_vars, anim_vars, agent_vars, ind_vars>>

NextBrowser ==
    \/ BrowserReadExit
    \/ BrowserReadQuery
    \/ BrowserReadEof
    \/ BrowserReadInterrupted
    \/ BrowserAgentEnds
    \/ BrowserClose

SpecBrowser == Init /\ [][NextBrowser]_vars

(***************************************************************************)
(* Definitions used to state the properties of the last sections           *)
(***************************************************************************)
IsPrefix(a, b) == Len(a) <= Len(b) /\ SubSeq(b, 1, Len(a)) = a

(***************************************************************************)
(* C21: the tool gateway connection is opened at most once per run and,    *)
(* once opened, is closed exactly once on every path that leaves run().    *)
(***************************************************************************)
C21_GatewayOpenedAndClosedOnce ==
    /\ opens <= 1
    /\ closes <= opens
    /\ (pc = "done" /\ opens = 1) => (closes = 1 /\ gateway = "closed")
    /\ pc # "done" => closes = 0

C21_Witness ==
    /\ pc = "done"
    /\ exit_reason = "escaped"
    /\ raised_by = "unbound_local"
    /\ opens = 1
    /\ closes = 1

(***************************************************************************)
(* C22: every submitted turn eventually reaches SUCCESS or FAILED when     *)
(* each stream is finite and each backoff wait elapses (checked on the     *)
(* runs in which every logger write succeeds and the user does not         *)
(* interrupt the turn).                                                    *)
(***************************************************************************)
C22_TurnEventuallyEnds ==
    (turn_state \in {"PENDING", "STREAMING"}) ~>
        (\/ turn_state \in {"SUCCESS", "FAILED"}
         \/ write_failed
         \/ exit_reason = "turn_interrupt")

(***************************************************************************)
(* C23: the llm_request record of an attempt, carrying the call id of the  *)
(* turn, is in the log before the message is dispatched and after the      *)
(* user_query record of the turn: the number of llm_request records of a   *)
(* call id equals the number of attempts dispatched for it.                *)
(***************************************************************************)
C23_RequestLoggedBeforeDispatch ==
    call_id # NoCallId =>
        /\ Cardinality(RecordsOf(log, "llm_request", call_id)) = dispatched
        /\ \A i \in RecordsOf(log, "llm_request", call_id) :
              \E j \in RecordsOf(log, "user_query", call_id) : j < i

C23_Witness ==
    /\ dispatched = 2
    /\ pc = "sending"
    /\ outcomes = <<"exception">>
    /\ Cardinality(RecordsOf(log, "llm_request", call_id)) = 2

(***************************************************************************)
(* C24: the log only grows: every step leaves the content written before   *)
(* as an unchanged prefix of the log, and a logger write appends exactly   *)
(* its one record.                                                         *)
(***************************************************************************)
C24_LogIsAppendOnly ==
    [][IsPrefix(log, log')]_vars

C24_Witness ==
    /\ Len(log) >= 6
    /\ log[1] = SessionHeader
    /\ log[Len(log)].kind = "session_end"

(***************************************************************************)
(* C26: the call counter is changed only by log_user_query, by exactly 1;  *)
(* the total reported at the end of the session is the number of turns     *)
(* submitted, whatever the retries and tool calls.                         *)
(***************************************************************************)
C26_CounterCountsTurns ==
    /\ [][\/ call_counter' = call_counter
          \/ /\ call_counter' = call_counter + 1
             /\ pc = "prompt"
             /\ user_input' \in Queries]_vars
    /\ [](total_reported # -1 => total_reported = Len(issued))

C26_Witness ==
    /\ total_reported = 1
    /\ \E i \in Indices(log) : log[i].kind = "tool_call" /\ log[i].call_id = issued[1]
    /\ Cardinality(RecordsOf(log, "llm_request", issued[1])) = 2

(***************************************************************************)
(* C27: the tool names printed after a failed attempt are the distinct     *)
(* tools observed during that same attempt, also when the exception is     *)
(* raised before the stream of the attempt is obtained (checked on the     *)
(* runs in which every logger write succeeds).                             *)
(***************************************************************************)
C27_ReportedToolsAreOfTheAttempt ==
    (~write_failed /\ reported.printed) => reported.names = FirstOccurrences(observed)

(***************************************************************************)
(* C29: once a session_end record is written, no record is appended to the *)
(* log (checked on the runs in which every logger write succeeds).         *)
(***************************************************************************)
C29_SessionEndIsLastRecord ==
    (~write_failed /\ HasSessionEnd) => log[Len(log)].kind = "session_end"

(***************************************************************************)
(* C25: in gemini-mcp-agent the messages sent to the graph for turn n+1    *)
(* hold the agent's replies of turns 1..n as well as the user's messages.  *)
(***************************************************************************)
C25_HistoryHoldsReplies ==
    \A k \in Indices(agent_sent) :
        /\ Cardinality({i \in Indices(agent_sent[k]) : agent_sent[k][i].role = "user"}) = k
        /\ Cardinality({i \in Indices(agent_sent[k]) : agent_sent[k][i].role = "ai"}) = k - 1

(***************************************************************************)
(* C28: for one ProcessingAnimation and any sequence of start() and stop() *)
(* calls interleaved with the scheduling of its tasks, at most one task    *)
(* can still write a tick; a task cancelled by stop() writes no further    *)
(* tick, also when start() is called again before it is resumed; start()   *)
(* on a running indicator creates no task.                                 *)
(***************************************************************************)
CanStillTick == {i \in Indices(ind_tasks) : ind_tasks[i].state # "finished" /\ ~ind_tasks[i].cancel}

C28_AtMostOneTickingTask ==
    /\ [](Cardinality(CanStillTick) <= 1)
    /\ [][\A i \in Indices(ind_tasks) :
             ind_tasks'[i].counter > ind_tasks[i].counter =>
                 (~ind_tasks[i].cancel /\ CanStillTick = {i})]_vars
    /\ [][ind_running => Len(ind_tasks') = Len(ind_tasks)]_vars

C28_Witness ==
    /\ ind_running
    /\ \E i, j \in Indices(ind_tasks) :
          /\ ind_tasks[i].cancel
          /\ ind_tasks[i].state = "woken"
          /\ ind_tasks[i].counter > 0
          /\ ind_tasks[j].state = "created"
          /\ ~ind_tasks[j].cancel
          /\ ind_task = j

(***************************************************************************)
(* C30: once terminal input has reached end of file, the loop of           *)
(* gemini-browser-use does not read again: it is left and the browser      *)
(* close is attempted.                                                     *)
(***************************************************************************)
C30_EofEndsTheLoop ==
    eof_reads <= 1

====
